---- MODULE Spec2Model ----
(***************************************************************************)
(* State-machine model of the GLOW orchestration loops:                    *)
(*   - RobustOrchestrator.process_request (brain/robust_orchestrator.py)   *)
(* Strings are TLA+ strings handled character by character (Len, SubSeq,   *)
(* \o), so that lower-casing and substring tests are computed, not assumed.*)
(***************************************************************************)
EXTENDS Integers, Sequences, FiniteSets, TLC

\* ------------------------------------------------------------------------
\* Python values: a str, None, or a key that is missing from a dict.
\* ------------------------------------------------------------------------
Str(s) == [t |-> "str", s |-> s]
None == [t |-> "none", s |-> ""]
Absent == [t |-> "absent", s |-> ""]
IsStr(v) == v.t = "str"

\* dict.get(key, default): the default only when the key is missing.
DictGet(v, default) == IF v.t = "absent" THEN default ELSE v

\* f"{v}": str(None) is "None".
Format(v) == IF v.t = "none" THEN "None" ELSE v.s

\* ------------------------------------------------------------------------
\* str.lower() and the `in` substring test.
\* ------------------------------------------------------------------------
UpperChars == "ABCDEFGHIJKLMNOPQRSTUVWXYZ"
LowerChars == "abcdefghijklmnopqrstuvwxyz"

LowerCh(c) ==
    IF \E i \in 1..Len(UpperChars) : SubSeq(UpperChars, i, i) = c
    THEN LET i == CHOOSE j \in 1..Len(UpperChars) : SubSeq(UpperChars, j, j) = c
         IN  SubSeq(LowerChars, i, i)
    ELSE c

\* s.lower(), by halves
RECURSIVE Lower(_)
Lower(s) ==
    IF Len(s) <= 1 THEN LowerCh(s)
    ELSE LET half == Len(s) \div 2
         IN  Lower(SubSeq(s, 1, half)) \o Lower(SubSeq(s, half + 1, Len(s)))

\* sub in s
Contains(sub, s) ==
    \E i \in 0..(Len(s) - Len(sub)) : SubSeq(s, i + 1, i + Len(sub)) = sub

\* lst[-n:]
LastN(lst, n) ==
    IF Len(lst) <= n THEN lst ELSE SubSeq(lst, Len(lst) - n + 1, Len(lst))

InSeq(x, lst) == \E i \in 1..Len(lst) : lst[i] = x

\* ------------------------------------------------------------------------
\* RobustOrchestrator: constants
\* ------------------------------------------------------------------------
MAX_ITERATIONS == 10
MaxIterationsText == "10"

BLOCKED_INTENTS == {"banking", "password", "captcha", "admin", "sudo", "registry"}

\* action_history[-3:] in the duplicate guard
DupWindow == 3

AbortMessage == "Action aborted by user (ESC pressed)."
DefaultGoalMessage == "Task completed successfully."
MaxIterationsMessage ==
    "Reached maximum iterations (" \o MaxIterationsText
        \o "). Task may be partially complete."
AlreadyOpenMessage(target) == "Done! " \o target \o " is already open."
RefusalMessage(intent) ==
    "I can't safely do that ('" \o intent \o "'). Let me help in another way."
AlreadyCompletedMessage(intent, target) ==
    "Done! I already completed '" \o intent \o "' on '" \o target \o "'."

\* ------------------------------------------------------------------------
\* RobustOrchestrator: pure helpers
\* ------------------------------------------------------------------------

\* _is_blocked_intent
IsBlockedIntent(intent, target) ==
    LET check_text == Lower(intent \o " " \o target)
    IN  \E blocked \in BLOCKED_INTENTS : Contains(blocked, check_text)

\* the heuristic comparing the target with the title as it is written
IsGoalAlreadyAchievedCaseSensitive(context, intent, target, window_title) ==
    LET intent_lower == Lower(intent)
    IN  \/ /\ \/ Contains("open", intent_lower)
              \/ Contains("launch", intent_lower)
              \/ Contains("start", intent_lower)
           /\ context = "application"
           /\ Contains(target, window_title)
        \/ /\ \/ Contains("navigate", intent_lower)
              \/ Contains("go", intent_lower)
           /\ Contains(target, window_title)
        \/ /\ context = "website"
           /\ Contains(target, window_title)

\* _is_goal_already_achieved (intent, target, window_title are str here;
\* a non-str intent or target raises at .lower(), see LowerRaises)
IsGoalAlreadyAchieved(context, intent, target, window_title) ==
    LET intent_lower == Lower(intent)
        target_lower == Lower(target)
        window_lower == Lower(window_title)
    IN  \/ /\ \/ Contains("open", intent_lower)
              \/ Contains("launch", intent_lower)
              \/ Contains("start", intent_lower)
           /\ context = "application"
           /\ Contains(target_lower, window_lower)
        \/ /\ \/ Contains("navigate", intent_lower)
              \/ Contains("go", intent_lower)
           /\ Contains(target_lower, window_lower)
        \/ /\ context = "website"
           /\ Contains(target_lower, window_lower)

\* intent.lower() / target.lower() on a value that is not a str
LowerRaises(intent, target) == ~IsStr(intent) \/ ~IsStr(target)

ActionKey(context, intent, target) == context \o ":" \o intent \o ":" \o target

\* ------------------------------------------------------------------------
\* RobustOrchestrator: state
\* ------------------------------------------------------------------------
VARIABLES
    pc,                     \* position of process_request
    iteration,              \* loop variable of `for iteration in range(1, MAX_ITERATIONS + 1)`
    abort_requested,        \* self.abort_requested
    action_history,         \* self.action_history (the entries the code still reads)
    history_len,            \* len(self.action_history)
    last_action_succeeded,  \* self.last_action_succeeded
    normalized_plan,        \* self.normalized_plan: "unset" | "None" | "plan"
    planner_kind,           \* which optional methods self.planner has
    tool_registry,          \* self.tool_registry: the set of registered names
    action,                 \* the iteration's locals: context, window_title, the
                            \* fields of intent_result, and how the iteration went
    response,               \* what process_request handed to its caller
    trace,                  \* calls made in the current iteration, in order
    registry_calls,         \* tool-registry invocations made during the run
    fallback_succeeded      \* some vision/tool fallback step of the run reported success

ro_vars == <<pc, iteration, abort_requested, action_history, history_len,
             last_action_succeeded, normalized_plan, planner_kind,
             tool_registry, action, response, trace, registry_calls,
             fallback_succeeded>>

\* ------------------------------------------------------------------------
\* MultiAgentSystem (brain/multi_agent_system.py): state
\* ------------------------------------------------------------------------
VARIABLES
    use_vision_first,      \* self.use_vision_first
    mas_pc,                \* position of MultiAgentSystem.process_request
    plan,                  \* the plan of OrchestratorAgent.run: steps, final_response
    step_index,            \* how many steps of the plan the for loop has run
    execution_results,     \* execution_results
    step_outputs,          \* step_outputs
    executor_registry,     \* self.executor.tool_registry: name -> callable
    mas_response,          \* what process_request handed to its caller
    executor_calls,        \* the messages handed to ExecutionAgent.process
    registry_invocations,  \* the tools invoked through the registry
    vf_iteration,          \* VisionFirstOrchestrator.iteration
    conversation_history,  \* conversation_history[-1:], the entry appended last
    conversation_len       \* len(conversation_history)

mas_vars == <<use_vision_first, mas_pc, plan, step_index, execution_results,
              step_outputs, executor_registry, mas_response, executor_calls,
              registry_invocations, vf_iteration, conversation_history,
              conversation_len>>


\* ------------------------------------------------------------------------
\* OrchestratorAgent._substitute_variables called on its own: state
\* ------------------------------------------------------------------------
VARIABLES
    bind_pc,           \* "ready" before the call, "done" after it, "idle" when unused
    bind_parameters,   \* the argument parameters
    bind_outputs,      \* the argument step_outputs
    bind_result        \* what the call gave back

binder_vars == <<bind_pc, bind_parameters, bind_outputs, bind_result>>

\* GlowApp (glow_app.py) with its orb (body/glow_orb.py)
VARIABLES
    gui_input_enabled,  \* input_field and send_button are enabled
    gui_status_label,   \* text of status_label
    gui_last_sender,    \* sender of the newest message of chat_display
    gui_orb_state,      \* orb.current_state
    gui_orb_text,       \* what the orb's status text shows
    gui_error_timer,    \* the singleShot of set_state_error is pending
    gui_closed,         \* the window was closed
    gui_started,        \* number of CommandWorkers started
    gui_worker,         \* self.worker: the newest worker, 0 for None
    gui_running,        \* workers started that have not emitted finished or error
    gui_pending         \* emitted signals whose slot has not run yet

gui_vars == <<gui_input_enabled, gui_status_label, gui_last_sender, gui_orb_state,
              gui_orb_text, gui_error_timer, gui_closed, gui_started, gui_worker,
              gui_running, gui_pending>>

NoResponse == [kind |-> "none", value |-> None]
Return(v) == [kind |-> "return", value |-> v]
Raise(e) == [kind |-> "raise", value |-> Str(e)]

NoAction == [context |-> "", window_title |-> "", intent |-> Str(""),
             target |-> Str(""), goal_achieved |-> FALSE, message |-> Absent,
             failed_query |-> FALSE, result |-> "none"]

\* ------------------------------------------------------------------------
\* The collaborators' replies
\* ------------------------------------------------------------------------

\* hasattr(self.planner, 'find_best_element_for_intent') / 'find_element_on_screen'
PlannerKinds == {"plain", "legacy", "universal"}
HasFindBest(kind) == kind = "universal"
HasFindOnScreen(kind) == kind \in {"legacy", "universal"}

\* hands.TOOL_REGISTRY, the names the tool fallback looks up
ToolFallbackNames == {"launch_application", "search_google", "open_website", "type_text"}

\* get_screen_context() / get_context_details()['window_title']
Observations ==
    { [context |-> "application", window_title |-> "Untitled - Notepad"],
      [context |-> "application", window_title |-> "Registry Editor"],
      [context |-> "website", window_title |-> "Notepad Online - Chrome"] }

JsonReply(intent, target, goal_achieved, message) ==
    [kind |-> "json", intent |-> intent, target |-> target,
     goal_achieved |-> goal_achieved, message |-> message, text |-> ""]

\* what the planner sends back to the intent query: a JSON object, free text
\* without an object, or nothing (the call raises, or json.loads does)
IntentReplies ==
    { JsonReply(Str("done"), Absent, TRUE, Str("All steps are complete.")),
      JsonReply(Str("done"), Absent, TRUE, Absent),
      JsonReply(Str("open_app"), Str("notepad"), FALSE, Absent),
      JsonReply(Str("open_app"), Str("registry editor"), FALSE, Absent),
      JsonReply(Str("type"), Str("my Password"), FALSE, Absent),
      JsonReply(Str("navigate"), Absent, FALSE, Absent),
      JsonReply(None, Str("notepad"), FALSE, Absent),
      [kind |-> "text", intent |-> Absent, target |-> Absent, goal_achieved |-> FALSE,
       message |-> Absent, text |-> "I have opened Notepad for you."],
      [kind |-> "raise", intent |-> Absent, target |-> Absent, goal_achieved |-> FALSE,
       message |-> Absent, text |-> "timed out"] }

\* _get_intent: the dict it returns for a planner reply
GetIntent(reply) ==
    CASE reply.kind = "json" ->
            [intent |-> reply.intent, target |-> reply.target,
             goal_achieved |-> reply.goal_achieved, message |-> reply.message]
      [] reply.kind = "text" ->
            [intent |-> Str("done"), target |-> Absent,
             goal_achieved |-> TRUE, message |-> Str(reply.text)]
      [] OTHER ->
            [intent |-> Str("error"), target |-> Str(reply.text),
             goal_achieved |-> FALSE, message |-> Absent]

\* what the planner sends back to the normalization query
NormalizeReplies == {"ok", "steps_null", "entities_null", "no_json", "raise"}

\* _normalize_query: "error" for a dict with an error key, else the parsed dict
NormalizeQuery(reply) ==
    IF reply \in {"no_json", "raise"} THEN "error" ELSE reply

\* ------------------------------------------------------------------------
\* process_request, lines 131-154: what one iteration decides from the
\* observation and the intent dict.  kind "dispatch" goes on to the handler.
\* ------------------------------------------------------------------------
\* The part that depends on the observation and the reply alone.
Proposal(obs, reply) ==
    LET intent_result == GetIntent(reply)
        intent == DictGet(intent_result.intent, Str(""))
        target == DictGet(intent_result.target, Str(""))
        proposed == ~intent_result.goal_achieved
        lowered == proposed /\ ~LowerRaises(intent, target)
    IN  [goal_achieved |-> intent_result.goal_achieved,
         supplied |-> intent_result.message,
         message |-> DictGet(intent_result.message, Str(DefaultGoalMessage)),
         failed_query |-> reply.kind \notin {"json", "text"},
         context |-> obs.context,
         window_title |-> obs.window_title,
         intent |-> intent,
         target |-> target,
         raises |-> proposed /\ LowerRaises(intent, target),
         already |-> lowered /\ IsGoalAlreadyAchieved(obs.context, intent.s, target.s,
                                                       obs.window_title),
         blocked |-> lowered /\ IsBlockedIntent(intent.s, target.s),
         action_key |-> IF lowered THEN ActionKey(obs.context, intent.s, target.s) ELSE ""]

Proposals == [obs \in Observations, reply \in IntentReplies |-> Proposal(obs, reply)]

Outcome(k, v, e) == [kind |-> k, value |-> v, exit |-> e]

\* the guard looking at the newest history entry only
IsDuplicateOfLast(action_key, history, succeeded) ==
    InSeq(action_key, LastN(history, 1)) /\ succeeded

\* the guard without the test of last_action_succeeded
IsDuplicateIgnoringSuccess(action_key, history, succeeded) ==
    InSeq(action_key, LastN(history, DupWindow))

\* action_key in self.action_history[-3:] and self.last_action_succeeded
IsDuplicate(action_key, history, succeeded) ==
    InSeq(action_key, LastN(history, DupWindow)) /\ succeeded

\* the checks without the one on goal_achieved
DecideIgnoringGoal(p, history, succeeded) ==
    IF p.raises
    THEN Outcome("raise", Str("AttributeError"), "raise")
    ELSE IF p.already
    THEN Outcome("return", Str(AlreadyOpenMessage(p.target.s)), "already")
    ELSE IF p.blocked
    THEN Outcome("return", Str(RefusalMessage(p.intent.s)), "blocked")
    ELSE IF IsDuplicate(p.action_key, history, succeeded)
    THEN Outcome("return", Str(AlreadyCompletedMessage(p.intent.s, p.target.s)),
                 "duplicate")
    ELSE Outcome("dispatch", None, "none")

\* the checks without the one on the deny-list
DecideUnguarded(p, history, succeeded) ==
    IF p.goal_achieved
    THEN Outcome("return", p.message, "goal")
    ELSE IF p.raises
    THEN Outcome("raise", Str("AttributeError"), "raise")
    ELSE IF p.already
    THEN Outcome("return", Str(AlreadyOpenMessage(p.target.s)), "already")
    ELSE IF IsDuplicate(p.action_key, history, succeeded)
    THEN Outcome("return", Str(AlreadyCompletedMessage(p.intent.s, p.target.s)),
                 "duplicate")
    ELSE Outcome("dispatch", None, "none")

\* process_request, lines 131-154
Decide(p, history, succeeded) ==
    IF p.goal_achieved
    THEN Outcome("return", p.message, "goal")
    ELSE IF p.raises
    THEN Outcome("raise", Str("AttributeError"), "raise")
    ELSE IF p.already
    THEN Outcome("return", Str(AlreadyOpenMessage(p.target.s)), "already")
    ELSE IF p.blocked
    THEN Outcome("return", Str(RefusalMessage(p.intent.s)), "blocked")
    ELSE IF IsDuplicate(p.action_key, history, succeeded)
    THEN Outcome("return", Str(AlreadyCompletedMessage(p.intent.s, p.target.s)),
                 "duplicate")
    ELSE Outcome("dispatch", None, "none")

\* ------------------------------------------------------------------------
\* hands.context_handlers (HandlerFactory.get_handler, can_handle, execute):
\* a handler exists for the desktop, browser and application contexts and
\* reports success, a request for vision, or failure.
\* ------------------------------------------------------------------------
HandlerOutcomes(context) ==
    IF context \in {"desktop", "browser", "application"}
    THEN {"cannot_handle", "success", "needs_vision", "fail"}
    ELSE {"no_handler"}

\* ------------------------------------------------------------------------
\* _run_vision_step.  env holds what the planner's vision methods and the
\* registry tool do when called.
\* ------------------------------------------------------------------------
VisionEnvs ==
    [best : {"element", "none", "raise"},
     interact : {"ok", "fail", "raise"},
     legacy : {"found", "none", "raise"},
     tool : {"ok", "error_status", "raise"}]

StepResult(ok, ev) == [success |-> ok, events |-> ev]

\* self.tool_registry[name](...): success is True unless the tool raises
ToolCall(name, env, ev) ==
    StepResult(env.tool # "raise", Append(ev, "registry:" \o name))

\* Method 3: direct tool mapping on the intent's keywords
ToolMapping(intent_lower, registry, env, ev) ==
    IF /\ \/ Contains("open", intent_lower)
          \/ Contains("launch", intent_lower)
          \/ Contains("start", intent_lower)
       /\ "launch_application" \in registry
    THEN ToolCall("launch_application", env, ev)
    ELSE IF Contains("search", intent_lower) /\ "search_google" \in registry
    THEN ToolCall("search_google", env, ev)
    ELSE IF /\ Contains("navigate", intent_lower) \/ Contains("go", intent_lower)
            /\ "open_website" \in registry
    THEN ToolCall("open_website", env, ev)
    ELSE IF Contains("type", intent_lower) /\ "type_text" \in registry
    THEN ToolCall("type_text", env, ev)
    ELSE StepResult(FALSE, ev)

\* Method 2: legacy find_element_on_screen and a coordinate click
LegacyClick(intent_lower, kind, registry, env, ev) ==
    IF HasFindOnScreen(kind)
    THEN LET ev2 == Append(ev, "find_element_on_screen")
         IN  CASE env.legacy = "raise" -> StepResult(FALSE, ev2)
               [] env.legacy = "found" -> StepResult(TRUE, Append(ev2, "pyautogui.click"))
               [] OTHER -> ToolMapping(intent_lower, registry, env, ev2)
    ELSE ToolMapping(intent_lower, registry, env, ev)

RunVisionStep(intent, target, kind, registry, env) ==
    LET intent_lower == Lower(intent)
    IN  IF HasFindBest(kind)
        THEN LET ev1 == <<"find_best_element_for_intent">>
             IN  CASE env.best = "raise" -> StepResult(FALSE, ev1)
                   [] env.best = "element" ->
                        StepResult(env.interact = "ok", Append(ev1, "interact_with_element"))
                   [] OTHER -> LegacyClick(intent_lower, kind, registry, env, ev1)
        ELSE LegacyClick(intent_lower, kind, registry, env, <<>>)

\* the intents that reach a dispatch, and what a step can do for each
DispatchIntents ==
    {Proposals[x].intent.s : x \in {y \in DOMAIN Proposals : Proposals[y].intent.t = "str"}}

VisionResults ==
    [intent \in DispatchIntents, kind \in PlannerKinds |->
        {RunVisionStep(intent, "", kind, ToolFallbackNames, env) : env \in VisionEnvs}]

IsRegistryEvent(e) == Len(e) > 9 /\ SubSeq(e, 1, 9) = "registry:"
IsVisionEvent(e) ==
    e \in {"find_best_element_for_intent", "interact_with_element",
           "find_element_on_screen", "pyautogui.click"}
IsHandlerEvent(e) == e = "handler.execute"
CountRegistry(ev) == Cardinality({i \in 1..Len(ev) : IsRegistryEvent(ev[i])})

\* ------------------------------------------------------------------------
\* OrchestratorAgent._substitute_variables (brain/multi_agent_system.py)
\* outputs (the dict step_outputs) is a function from keys ("step1_result", "step1_tool",
\* "step1_error") to Python values; a value that is neither a str nor None
\* is [t |-> "int", ...] or [t |-> "dict", ...].
\* ------------------------------------------------------------------------
PyInt(s) == [t |-> "int", s |-> s]
PyDict(s) == [t |-> "dict", s |-> s]
TypeErrorValue == [t |-> "raise", s |-> "TypeError"]
IsRaise(v) == v.t = "raise"

WordChars == "abcdefghijklmnopqrstuvwxyzABCDEFGHIJKLMNOPQRSTUVWXYZ0123456789_"
DigitChars == "0123456789"
WordCharSet == {SubSeq(WordChars, i, i) : i \in 1..Len(WordChars)}
DigitCharSet == {SubSeq(DigitChars, i, i) : i \in 1..Len(DigitChars)}

\* the length of the longest prefix of s made of characters of chars
RECURSIVE RunLength(_, _)
RunLength(s, chars) ==
    IF Len(s) > 0 /\ SubSeq(s, 1, 1) \in chars
    THEN 1 + RunLength(SubSeq(s, 2, Len(s)), chars)
    ELSE 0

StartsWith(s, prefix) ==
    Len(s) >= Len(prefix) /\ SubSeq(s, 1, Len(prefix)) = prefix

Drop(s, n) == SubSeq(s, n + 1, Len(s))

\* f"step{n}_result" and the like, for the step numbers of a plan
StepKey(n, suffix) == "step" \o SubSeq(DigitChars, n + 1, n + 1) \o suffix

\* step_outputs.get(key, default)
OutputsGet(outputs, key, default) ==
    IF key \in DOMAIN outputs THEN outputs[key] ELSE default

NoMatch == [len |-> 0, repl |-> None]

\* replace_desktop_path: the most recent get_desktop_path result among the
\* step numbers range(len(step_outputs), 0, -1)
ReplaceDesktopPath(outputs, matched) ==
    LET found == {n \in 1..Cardinality(DOMAIN outputs) :
                     OutputsGet(outputs, StepKey(n, "_tool"), Str(""))
                        = Str("get_desktop_path")}
    IN  IF found = {} THEN Str(matched)
        ELSE LET step_num == CHOOSE n \in found : \A m \in found : m <= n
             IN  OutputsGet(outputs, StepKey(step_num, "_result"), Str(matched))

\* r'\$([a-zA-Z0-9_]+)' matched at the head of s, with replace_dollar_var
MatchDollar(s, outputs) ==
    LET n == RunLength(Drop(s, 1), WordCharSet)
    IN  IF StartsWith(s, "$") /\ n >= 1
        THEN [len |-> 1 + n,
              repl |-> OutputsGet(outputs, SubSeq(s, 2, 1 + n),
                                  Str(SubSeq(s, 1, 1 + n)))]
        ELSE NoMatch

\* r'\{(?:result from step |step )?(\d+)(?: result)?\}' (open "{", close "}")
\* and the same with "<" and ">", matched at the head of s, with
\* replace_curly_var / replace_angle_var
MatchBracket(open, close, s, outputs) ==
    IF ~StartsWith(s, open) THEN NoMatch
    ELSE LET body == Drop(s, 1)
             p == IF StartsWith(body, "result from step ") THEN 17
                  ELSE IF StartsWith(body, "step ") THEN 5 ELSE 0
             d == RunLength(Drop(body, p), DigitCharSet)
             tail == Drop(body, p + d)
             r == IF StartsWith(tail, " result") THEN 7 ELSE 0
             step_num == SubSeq(body, p + 1, p + d)
             total == 1 + p + d + r + 1
         IN  IF d >= 1 /\ StartsWith(Drop(tail, r), close)
             THEN [len |-> total,
                   repl |-> OutputsGet(outputs, "step" \o step_num \o "_result",
                                       Str(SubSeq(s, 1, total)))]
             ELSE NoMatch

\* r'[<{\$]desktop_path[>}]?' matched at the head of s
MatchDesktopPath(s, outputs) ==
    IF /\ Len(s) >= 1 /\ SubSeq(s, 1, 1) \in {"<", "{", "$"}
       /\ StartsWith(Drop(s, 1), "desktop_path")
    THEN LET total == IF Len(s) >= 14 /\ SubSeq(s, 14, 14) \in {">", "}"}
                      THEN 14 ELSE 13
         IN  [len |-> total,
              repl |-> ReplaceDesktopPath(outputs, SubSeq(s, 1, total))]
    ELSE NoMatch

MatchAt(pattern, s, outputs) ==
    CASE pattern = "dollar" -> MatchDollar(s, outputs)
      [] pattern = "curly" -> MatchBracket("{", "}", s, outputs)
      [] pattern = "angle" -> MatchBracket("<", ">", s, outputs)
      [] OTHER -> MatchDesktopPath(s, outputs)

\* the pieces re.sub joins: a callback's None counts as "", any other value
\* that is not a str makes the join raise TypeError
JoinPieces(before, repl, rest) ==
    LET piece == IF repl.t = "none" THEN Str("") ELSE repl
    IN  IF IsRaise(rest) \/ ~IsStr(piece) THEN TypeErrorValue
        ELSE Str(before \o piece.s \o rest.s)

\* F applied to the value of v, with v evaluated once
Bind(v, F(_)) == CHOOSE out \in {F(x) : x \in {v}} : TRUE

\* re.sub(pattern, callback, s): the leftmost match, then the rest of s
RECURSIVE ReSub(_, _, _)
ReSub(pattern, s, outputs) ==
    LET starts == {i \in 1..Len(s) : MatchAt(pattern, Drop(s, i - 1), outputs).len > 0}
    IN  IF starts = {} THEN Str(s)
        ELSE Bind(CHOOSE j \in starts : \A k \in starts : j <= k, LAMBDA i :
             Bind(MatchAt(pattern, Drop(s, i - 1), outputs), LAMBDA m :
             Bind(ReSub(pattern, Drop(s, i - 1 + m.len), outputs), LAMBDA rest :
                  JoinPieces(SubSeq(s, 1, i - 1), m.repl, rest))))

\* the four substitutions applied to one str parameter value, in order
SubstituteValue(value, outputs) ==
    Bind(ReSub("dollar", value, outputs), LAMBDA v1 :
         IF IsRaise(v1) THEN v1
         ELSE Bind(ReSub("curly", v1.s, outputs), LAMBDA v2 :
              IF IsRaise(v2) THEN v2
              ELSE Bind(ReSub("angle", v2.s, outputs), LAMBDA v3 :
                   IF IsRaise(v3) THEN v3
                   ELSE ReSub("desktop", v3.s, outputs))))

\* a step's "parameters": a dict, None, or no such key
Params(items) == [t |-> "dict", items |-> items]
EmptyItems == [key \in {} |-> None]
NoneParams == [t |-> "none", items |-> EmptyItems]
AbsentParams == [t |-> "absent", items |-> EmptyItems]
BindRaises == [t |-> "raise", items |-> EmptyItems]

\* _substitute_variables: parameters is a function from keys to values;
\* the result is the substituted dict, or BindRaises when re.sub raises
SubstituteVariables(parameters, outputs) ==
    LET substituted ==
            [key \in DOMAIN parameters |->
                IF IsStr(parameters[key])
                THEN SubstituteValue(parameters[key].s, outputs)
                ELSE parameters[key]]
    IN  IF \E key \in DOMAIN parameters : IsRaise(substituted[key])
        THEN BindRaises
        ELSE Params(substituted)

\* ------------------------------------------------------------------------
\* MultiAgentSystem: the collaborators' replies
\* ------------------------------------------------------------------------
\* hands.TOOL_REGISTRY, the names the plans below call
PlanToolNames == {"get_desktop_path", "list_all_windows", "write_file", "type_text"}

PlanStep(tool, parameters) == [tool |-> tool, parameters |-> parameters]

\* the steps the planner builds plans from
StepCatalog ==
    { PlanStep(Str("get_desktop_path"), AbsentParams),
      PlanStep(Str("list_all_windows"), Params(EmptyItems)),
      PlanStep(Str("write_file"),
               Params("path" :> Str("<desktop_path>/notes.txt")
                        @@ "content" :> Str("$step1_result"))),
      PlanStep(Str("type_text"), Params("text" :> Str("my Password is {step 2 result}"))),
      PlanStep(Str("launch_rocket"), Params("speed" :> PyInt("9"))),
      PlanStep(Str("CREATE_NEW_TOOL"),
               Params("tool_description" :> Str("count the words")
                        @@ "suggested_name" :> Str("count_words"))) }

\* the longest plan
MaxSteps == 3

RECURSIVE SeqsUpTo(_, _)
SeqsUpTo(S, n) ==
    IF n = 0 THEN {<<>>}
    ELSE LET shorter == SeqsUpTo(S, n - 1)
         IN  shorter \cup {Append(q, x) : q \in {r \in shorter : Len(r) = n - 1}, x \in S}

Plans == SeqsUpTo(StepCatalog, MaxSteps)

\* PlanningAgent.process: an error message, a conversational response, a
\* plan, or an exception of the planner it does not catch
PlannerReplies ==
    { [kind |-> "error", error |-> Str("quota exceeded")],
      [kind |-> "conversation", response |-> Str("Hello!")],
      [kind |-> "raise", error |-> Str("ConnectionError")] }
    \cup { [kind |-> "plan", steps |-> q, final_response |-> fr] :
              q \in Plans, fr \in {Str("All done.")} }

\* what a registered tool does when called with the bound parameters
ToolOutcomes(tool_name) ==
    CASE tool_name = "get_desktop_path" ->
            { [kind |-> "return", value |-> Str("C:/Users/me/Desktop")],
              [kind |-> "raise", value |-> Str("OSError")] }
      [] tool_name = "list_all_windows" ->
            { [kind |-> "return", value |-> [t |-> "list", s |-> "[]"]],
              [kind |-> "raise", value |-> Str("ImportError")] }
      [] tool_name = "write_file" ->
            { [kind |-> "return", value |-> Str("Successfully wrote file")],
              [kind |-> "return", value |-> Str("Error writing file: access denied")],
              [kind |-> "raise", value |-> Str("TypeError")] }
      [] OTHER ->
            { [kind |-> "return", value |-> Str("Typed text")],
              [kind |-> "raise", value |-> Str("FailSafeException")] }

\* ToolCreationAgent.process and the exec of the generated code
CreatorOutcomes == {"created", "exec_raises", "error", "raise"}
CreatedToolName == "count_words"

\* the tool_name of the creator's response: the first def of the generated
\* code, a new name or the name of a tool that is registered already
GeneratedToolNames == {CreatedToolName, "write_file"}

\* the registry handed to MultiAgentSystem: every name with its own function
RegisteredTools == [name \in PlanToolNames |-> "registered"]

\* what the callable registered under a name does when called
CallableOutcomes(name, callable) ==
    IF callable = "generated" THEN ToolOutcomes(CreatedToolName) ELSE ToolOutcomes(name)

\* what the model sends back to the verification prompt: text holding a
\* JSON object, text without an object, text whose braces do not hold valid
\* JSON, or an exception of the model call
VerifierReplies ==
    { [kind |-> "json", verification_status |-> vs, user_response |-> ur, issues |-> is] :
          vs \in {Str("success"), Absent},
          ur \in {Str("Your file is saved."), Absent},
          is \in {"absent", "strings", "numbers"} }
    \cup { [kind |-> "text", text |-> "Looks good to me."],
           [kind |-> "invalid_json", text |-> "{status: ok} Everything went well."],
           [kind |-> "raise"] }

\* ExecutionAgent.process: the content of the message it returns
ExecutionResult(tool, success, result, error) ==
    [tool |-> tool, success |-> success, result |-> result, error |-> error]

ToolNotFound(tool) == "Tool '" \o Format(tool) \o "' not found"

\* ------------------------------------------------------------------------
\* RobustOrchestrator: actions
\* ------------------------------------------------------------------------
vars == <<ro_vars, mas_vars, binder_vars, gui_vars>>

LoopRangeOneMore == 1..(MAX_ITERATIONS + 1)

\* range(1, MAX_ITERATIONS + 1)
LoopRange == 1..MAX_ITERATIONS

\* MultiAgentSystem.__init__ and an OrchestratorAgent / VisionFirstOrchestrator
\* that has not run yet
NoPlan == [steps |-> <<>>, final_response |-> Absent]

MasIdle ==
    /\ mas_pc = "idle"
    /\ plan = NoPlan
    /\ step_index = 0
    /\ execution_results = <<>>
    /\ step_outputs = EmptyItems
    /\ executor_registry = RegisteredTools
    /\ mas_response = NoResponse
    /\ executor_calls = <<>>
    /\ registry_invocations = <<>>
    /\ vf_iteration = 0
    /\ conversation_history = <<>>
    /\ conversation_len = 0

\* GlowApp after __init__: no worker, input enabled, the orb idle
GuiIdle ==
    /\ gui_input_enabled = TRUE
    /\ gui_status_label = "Model"
    /\ gui_last_sender = ""
    /\ gui_orb_state = "idle"
    /\ gui_orb_text = ""
    /\ gui_error_timer = FALSE
    /\ gui_closed = FALSE
    /\ gui_started = 0
    /\ gui_worker = 0
    /\ gui_running = {}
    /\ gui_pending = <<>>

BinderIdle ==
    /\ bind_pc = "idle"
    /\ bind_parameters = EmptyItems
    /\ bind_outputs = EmptyItems
    /\ bind_result = NoneParams

RobustInit ==
    /\ BinderIdle
    /\ GuiIdle
    /\ pc = "idle"
    /\ iteration = 0
    /\ abort_requested = FALSE
    /\ action_history = <<>>
    /\ history_len = 0
    /\ last_action_succeeded = FALSE
    /\ normalized_plan = "unset"
    /\ planner_kind \in PlannerKinds
    /\ tool_registry = ToolFallbackNames
    /\ action = NoAction
    /\ response = NoResponse
    /\ trace = <<>>
    /\ registry_calls = 0
    /\ fallback_succeeded = FALSE
    /\ MasIdle
    /\ use_vision_first = FALSE

\* process_request, lines 88-89: a run starts on the idle instance
ProcessRequest ==
    /\ pc \in {"idle", "done"}
    /\ pc' = "normalize"
    /\ abort_requested' = FALSE
    /\ action_history' = <<>>
    /\ history_len' = 0
    /\ iteration' = 0
    /\ action' = NoAction
    /\ response' = NoResponse
    /\ trace' = <<>>
    /\ registry_calls' = 0
    /\ fallback_succeeded' = FALSE
    /\ UNCHANGED <<last_action_succeeded, normalized_plan, planner_kind, tool_registry>>
    /\ UNCHANGED <<mas_vars, binder_vars, gui_vars>>

\* process_request, lines 97-112: normalized_plan is assigned, then the
\* prints evaluate len(normalized.get('steps', [])) and
\* normalized.get('entities', {}).get('app')
NormalizeWith(replies) ==
    /\ pc = "normalize"
    /\ \E reply \in replies :
         LET normalized == NormalizeQuery(reply)
         IN  IF normalized = "error"
             THEN /\ normalized_plan' = "None"
                  /\ pc' = "loop"
                  /\ response' = response
             ELSE /\ normalized_plan' = "plan"
                  /\ IF normalized = "steps_null"
                     THEN pc' = "done" /\ response' = Raise("TypeError")
                     ELSE IF normalized = "entities_null"
                     THEN pc' = "done" /\ response' = Raise("AttributeError")
                     ELSE pc' = "loop" /\ response' = response
    /\ UNCHANGED <<iteration, abort_requested, action_history, history_len,
                   last_action_succeeded, planner_kind, tool_registry, action,
                   trace, registry_calls, fallback_succeeded>>
    /\ UNCHANGED <<mas_vars, binder_vars, gui_vars>>

\* the loop with the abort check made once, before the first iteration
BeginIterationCheckingOnce ==
    /\ pc = "loop"
    /\ IF iteration + 1 \in LoopRange
       THEN /\ iteration' = iteration + 1
            /\ trace' = <<>>
            /\ IF abort_requested /\ iteration = 0
               THEN /\ pc' = "done"
                    /\ response' = Return(Str(AbortMessage))
                    /\ action' = [NoAction EXCEPT !.result = "abort"]
               ELSE /\ pc' = "observe"
                    /\ response' = response
                    /\ action' = NoAction
       ELSE /\ pc' = "done"
            /\ response' = Return(Str(MaxIterationsMessage))
            /\ action' = [NoAction EXCEPT !.result = "exhausted"]
            /\ UNCHANGED <<iteration, trace>>
    /\ UNCHANGED <<abort_requested, action_history, history_len,
                   last_action_succeeded, normalized_plan, planner_kind,
                   tool_registry, registry_calls, fallback_succeeded>>
    /\ UNCHANGED <<mas_vars, binder_vars, gui_vars>>

\* the head of the for loop, the abort check (lines 114-118) and line 192
BeginIteration ==
    /\ pc = "loop"
    /\ IF iteration + 1 \in LoopRange
       THEN /\ iteration' = iteration + 1
            /\ trace' = <<>>
            /\ IF abort_requested
               THEN /\ pc' = "done"
                    /\ response' = Return(Str(AbortMessage))
                    /\ action' = [NoAction EXCEPT !.result = "abort"]
               ELSE /\ pc' = "observe"
                    /\ response' = response
                    /\ action' = NoAction
       ELSE /\ pc' = "done"
            /\ response' = Return(Str(MaxIterationsMessage))
            /\ action' = [NoAction EXCEPT !.result = "exhausted"]
            /\ UNCHANGED <<iteration, trace>>
    /\ UNCHANGED <<abort_requested, action_history, history_len,
                   last_action_succeeded, normalized_plan, planner_kind,
                   tool_registry, registry_calls, fallback_succeeded>>
    /\ UNCHANGED <<mas_vars, binder_vars, gui_vars>>

\* lines 123-154: observe, query the intent, run the checks
ObserveAndDecideWith(observations, replies) ==
    /\ pc = "observe"
    /\ \E obs \in observations, reply \in replies :
         LET p == Proposals[obs, reply]
             d == Decide(p, action_history, last_action_succeeded)
         IN  /\ trace' = <<"get_screen_context", "_get_intent">>
             /\ action' = [context |-> p.context, window_title |-> p.window_title,
                           intent |-> p.intent, target |-> p.target,
                           goal_achieved |-> p.goal_achieved,
                           message |-> p.supplied,
                           failed_query |-> p.failed_query,
                           result |-> d.exit]
             /\ IF d.kind = "dispatch"
                THEN /\ action_history' =
                          LastN(Append(action_history, p.action_key), DupWindow)
                     /\ history_len' = history_len + 1
                     /\ pc' = "dispatch"
                     /\ response' = response
                ELSE /\ pc' = "done"
                     /\ response' = [kind |-> d.kind, value |-> d.value]
                     /\ UNCHANGED <<action_history, history_len>>
    /\ UNCHANGED <<iteration, abort_requested, last_action_succeeded,
                   normalized_plan, planner_kind, tool_registry, registry_calls,
                   fallback_succeeded>>
    /\ UNCHANGED <<mas_vars, binder_vars, gui_vars>>

\* lines 157-181: the context handler
DispatchWith(outcomes) ==
    /\ pc = "dispatch"
    /\ \E outcome \in HandlerOutcomes(action.context) \cap outcomes :
         /\ action' = [action EXCEPT !.result = outcome]
         /\ trace' = IF outcome \in {"success", "needs_vision", "fail"}
                     THEN Append(trace, "handler.execute") ELSE trace
         /\ pc' = CASE outcome = "success" -> "loop"
                    [] outcome = "needs_vision" -> "vision"
                    [] OTHER -> "fallback"
    /\ UNCHANGED <<iteration, abort_requested, action_history, history_len,
                   last_action_succeeded, normalized_plan, planner_kind,
                   tool_registry, response, registry_calls, fallback_succeeded>>
    /\ UNCHANGED <<mas_vars, binder_vars, gui_vars>>

\* _run_vision_step as called at line 171 (at = "vision") and at line 184
\* (at = "fallback").  With audit, the run's registry invocations and
\* fallback successes are recorded.
VisionOrFallbackStep(at, audit) ==
    /\ pc = at
    /\ \E r \in VisionResults[action.intent.s, planner_kind] :
         /\ last_action_succeeded' = r.success
         /\ trace' = trace \o r.events
         /\ action' = [action EXCEPT !.result =
                          IF r.success THEN at \o "_ok" ELSE at \o "_failed"]
         /\ IF audit
            THEN /\ registry_calls' = registry_calls + CountRegistry(r.events)
                 /\ fallback_succeeded' = (fallback_succeeded \/ r.success)
            ELSE UNCHANGED <<registry_calls, fallback_succeeded>>
    /\ pc' = "loop"
    /\ UNCHANGED <<iteration, abort_requested, action_history, history_len,
                   normalized_plan, planner_kind, tool_registry, response>>
    /\ UNCHANGED <<mas_vars, binder_vars, gui_vars>>

\* _emergency_stop, the keyboard callback: at any moment
EmergencyStop ==
    /\ ~abort_requested
    /\ abort_requested' = TRUE
    /\ UNCHANGED <<pc, iteration, action_history, history_len,
                   last_action_succeeded, normalized_plan, planner_kind,
                   tool_registry, action, response, trace, registry_calls,
                   fallback_succeeded>>
    /\ UNCHANGED <<mas_vars, binder_vars, gui_vars>>



Normalize == NormalizeWith(NormalizeReplies)
ObserveAndDecide == ObserveAndDecideWith(Observations, IntentReplies)
Dispatch == DispatchWith({"no_handler", "cannot_handle", "success", "needs_vision", "fail"})
VisionStep == VisionOrFallbackStep("vision", FALSE)
ToolFallback == VisionOrFallbackStep("fallback", FALSE)

RobustNext ==
    \/ ProcessRequest
    \/ Normalize
    \/ BeginIteration
    \/ ObserveAndDecide
    \/ Dispatch
    \/ VisionStep
    \/ ToolFallback
    \/ EmergencyStop

Spec == RobustInit /\ [][RobustNext]_vars

\* The same program with the run's registry invocations counted.
AuditedVisionStep == VisionOrFallbackStep("vision", TRUE)
AuditedToolFallback == VisionOrFallbackStep("fallback", TRUE)

AuditNext ==
    \/ ProcessRequest
    \/ Normalize
    \/ BeginIteration
    \/ ObserveAndDecide
    \/ Dispatch
    \/ AuditedVisionStep
    \/ AuditedToolFallback
    \/ EmergencyStop

SpecAudit == RobustInit /\ [][AuditNext]_vars

\* The program with a planner that never reports goal_achieved, in a context
\* that has a handler, and a handler that reports failure without asking
\* for vision: every dispatch goes on to the tool fallback of line 184.
ProposingReplies == {reply \in IntentReplies : ~GetIntent(reply).goal_achieved}
HandledObservations ==
    {obs \in Observations : "fail" \in HandlerOutcomes(obs.context)}

ObserveAndPropose == ObserveAndDecideWith(HandledObservations, ProposingReplies)
DispatchFails == DispatchWith({"fail"})

FailingHandlerNext ==
    \/ ProcessRequest
    \/ Normalize
    \/ BeginIteration
    \/ ObserveAndPropose
    \/ DispatchFails
    \/ AuditedToolFallback
    \/ EmergencyStop

SpecFailingHandler == RobustInit /\ [][FailingHandlerNext]_vars

\* ------------------------------------------------------------------------
\* MultiAgentSystem.process_request and OrchestratorAgent.run: actions
\* ------------------------------------------------------------------------

\* MultiAgentSystem.__init__: vision-first when the planner has
\* analyze_screen_and_decide, else the standard orchestrator
MasInit ==
    /\ BinderIdle
    /\ GuiIdle
    /\ MasIdle
    /\ use_vision_first \in BOOLEAN
    /\ pc = "idle"
    /\ iteration = 0
    /\ abort_requested = FALSE
    /\ action_history = <<>>
    /\ history_len = 0
    /\ last_action_succeeded = FALSE
    /\ normalized_plan = "unset"
    /\ planner_kind = "plain"
    /\ tool_registry = ToolFallbackNames
    /\ action = NoAction
    /\ response = NoResponse
    /\ trace = <<>>
    /\ registry_calls = 0
    /\ fallback_succeeded = FALSE

\* MultiAgentSystem.process_request, and the locals run() and
\* process_request_vision_first() start from
MasProcessRequest ==
    /\ mas_pc \in {"idle", "done"}
    /\ mas_pc' = IF use_vision_first THEN "vf_loop" ELSE "planning"
    /\ plan' = NoPlan
    /\ step_index' = 0
    /\ execution_results' = <<>>
    /\ step_outputs' = EmptyItems
    /\ mas_response' = NoResponse
    /\ executor_calls' = <<>>
    /\ registry_invocations' = <<>>
    /\ vf_iteration' = 0
    /\ conversation_history' = <<>>
    /\ conversation_len' = 0
    /\ UNCHANGED <<use_vision_first, executor_registry>>
    /\ UNCHANGED <<ro_vars, binder_vars, gui_vars>>

\* run(), lines 397-431: the planning request and what it leads to
PlanRequest ==
    /\ mas_pc = "planning"
    /\ \E reply \in PlannerReplies :
         CASE reply.kind = "error" ->
                /\ mas_pc' = "done"
                /\ mas_response' = Return(Str("Error: " \o reply.error.s))
                /\ UNCHANGED plan
           [] reply.kind = "conversation" ->
                /\ mas_pc' = "done"
                /\ mas_response' = Return(reply.response)
                /\ UNCHANGED plan
           [] reply.kind = "raise" ->
                /\ mas_pc' = "done"
                /\ mas_response' = Raise(reply.error.s)
                /\ UNCHANGED plan
           [] OTHER ->
                /\ mas_pc' = "steps"
                /\ plan' = [steps |-> reply.steps, final_response |-> reply.final_response]
                /\ UNCHANGED mas_response
    /\ UNCHANGED <<use_vision_first, step_index, execution_results, step_outputs,
                   executor_registry, executor_calls, registry_invocations,
                   vf_iteration, conversation_history, conversation_len>>
    /\ UNCHANGED <<ro_vars, binder_vars, gui_vars>>

\* the run raises out of the step loop
StepRaises(error) ==
    /\ mas_pc' = "done"
    /\ mas_response' = Raise(error)
    /\ UNCHANGED <<step_index, execution_results, step_outputs, executor_registry,
                   executor_calls, registry_invocations>>

\* lines 450-494: a CREATE_NEW_TOOL step
CreateNewTool(i, parameters) ==
    IF parameters.t # "dict"
    THEN StepRaises("AttributeError")
    ELSE \E outcome \in CreatorOutcomes, new_tool_name \in GeneratedToolNames :
           IF outcome = "raise"
           THEN StepRaises("KeyError")
           ELSE /\ step_index' = i
                /\ execution_results' = Append(execution_results,
                      CASE outcome = "created" ->
                             ExecutionResult(Str("CREATE_NEW_TOOL"), TRUE,
                                             Str("Created tool: " \o new_tool_name), Absent)
                        [] outcome = "exec_raises" ->
                             ExecutionResult(Str("CREATE_NEW_TOOL"), FALSE,
                                             Str("Error: invalid syntax"), Absent)
                        [] OTHER ->
                             ExecutionResult(Str("CREATE_NEW_TOOL"), FALSE,
                                             Str("Failed to generate tool"), Absent))
                /\ executor_registry' = IF outcome = "created"
                                        THEN (new_tool_name :> "generated") @@ executor_registry
                                        ELSE executor_registry
                /\ UNCHANGED <<mas_pc, mas_response, step_outputs, executor_calls,
                               registry_invocations>>

\* the failure stored in a fresh dict instead of the run's step_outputs
RecordFailureInFreshDict(i, tool_name, error) ==
    /\ execution_results' =
          Append(execution_results, ExecutionResult(tool_name, FALSE, Absent, Str(error)))
    /\ step_outputs' = (StepKey(i, "_result") :> Str("") @@ StepKey(i, "_error") :> Str(error))

\* the step failed: lines 517-520
RecordFailure(i, tool_name, error) ==
    /\ execution_results' =
          Append(execution_results, ExecutionResult(tool_name, FALSE, Absent, Str(error)))
    /\ step_outputs' = (StepKey(i, "_result") :> Str("") @@ StepKey(i, "_error") :> Str(error))
                          @@ step_outputs

\* lines 496-522 with ExecutionAgent.process: a regular step
ExecuteTool(i, tool_name, parameters) ==
    /\ step_index' = i
    /\ executor_calls' = Append(executor_calls, [tool_name |-> tool_name,
                                                 parameters |-> parameters])
    /\ UNCHANGED <<mas_pc, mas_response, executor_registry>>
    /\ IF IsStr(tool_name) /\ tool_name.s \in DOMAIN executor_registry
       THEN IF parameters.t # "dict"
            THEN \* tool(**None) raises inside the try
                 /\ RecordFailure(i, tool_name, "TypeError")
                 /\ UNCHANGED registry_invocations
            ELSE /\ registry_invocations' =
                       Append(registry_invocations, [tool_name |-> tool_name,
                                                     parameters |-> parameters])
                 /\ \E outcome \in CallableOutcomes(tool_name.s, executor_registry[tool_name.s]) :
                      IF outcome.kind = "return"
                      THEN /\ execution_results' = Append(execution_results,
                                 ExecutionResult(tool_name, TRUE, outcome.value, Absent))
                           /\ step_outputs' =
                                 (StepKey(i, "_result") :> outcome.value
                                    @@ StepKey(i, "_tool") :> tool_name) @@ step_outputs
                      ELSE RecordFailure(i, tool_name, outcome.value.s)
       ELSE /\ RecordFailure(i, tool_name, ToolNotFound(tool_name))
            /\ UNCHANGED registry_invocations

\* run(), lines 437-533: one pass of the for loop over the steps
ExecuteStep ==
    /\ mas_pc = "steps"
    /\ step_index < Len(plan.steps)
    /\ LET i == step_index + 1
           step == plan.steps[i]
           tool_name == DictGet(step.tool, None)
           parameters == IF step.parameters.t = "absent"
                         THEN Params(EmptyItems) ELSE step.parameters
       IN  \E bound \in {IF parameters.t = "dict" /\ DOMAIN parameters.items # {}
                          THEN SubstituteVariables(parameters.items, step_outputs)
                          ELSE parameters} :
             IF bound.t = "raise"
             THEN StepRaises("TypeError")
             ELSE IF tool_name = Str("CREATE_NEW_TOOL")
             THEN CreateNewTool(i, bound)
             ELSE ExecuteTool(i, tool_name, bound)
    /\ UNCHANGED <<use_vision_first, plan, vf_iteration, conversation_history,
                   conversation_len>>
    /\ UNCHANGED <<ro_vars, binder_vars, gui_vars>>

\* VerificationAgent.process: the message it returns for a reply
VerifierMessage(reply) ==
    CASE reply.kind = "json" ->
            [message_type |-> "response",
             verification_status |-> reply.verification_status,
             user_response |-> reply.user_response,
             issues |-> reply.issues]
      [] reply.kind = "text" ->
            [message_type |-> "response",
             verification_status |-> Str("success"),
             user_response |-> Str(reply.text),
             issues |-> "empty"]
      [] OTHER ->
            [message_type |-> "error", verification_status |-> Absent,
             user_response |-> Absent, issues |-> "absent"]

\* run(), lines 549-567: the response made from the verifier's message
RunResponse(msg, final_response) ==
    LET status == DictGet(msg.verification_status, None)
    IN  IF msg.message_type = "response"
        THEN IF ~IsStr(status)
             THEN Raise("AttributeError")
             ELSE IF msg.issues = "numbers"
             THEN Raise("TypeError")
             ELSE Return(DictGet(msg.user_response, None))
        ELSE Return(DictGet(final_response, Str("Task completed.")))

\* run(), lines 536-567: verification and the response, for one reply
VerifyReply(reply) ==
    /\ mas_pc = "steps"
    /\ step_index = Len(plan.steps)
    /\ mas_response' = RunResponse(VerifierMessage(reply), plan.final_response)
    /\ mas_pc' = "done"
    /\ UNCHANGED <<use_vision_first, plan, step_index, execution_results, step_outputs,
                   executor_registry, executor_calls, registry_invocations,
                   vf_iteration, conversation_history, conversation_len>>
    /\ UNCHANGED <<ro_vars, binder_vars, gui_vars>>

Verify == \E reply \in VerifierReplies : VerifyReply(reply)

\* ------------------------------------------------------------------------
\* VisionFirstOrchestrator.process_request_vision_first
\* (brain/vision_first_orchestrator.py)
\* ------------------------------------------------------------------------
max_iterations == 15
MaxIterationsShown == "15"

PartialMessage ==
    "Partially completed task. Performed " \o MaxIterationsShown
        \o " actions but did not fully achieve goal."

\* what planner.analyze_screen_and_decide gives back, or that it raises
VisionDecisions ==
    { [kind |-> "decision", goal_achieved |-> TRUE, progress |-> Str("Notepad is open."),
       next_action |-> None],
      [kind |-> "decision", goal_achieved |-> TRUE, progress |-> Absent,
       next_action |-> None],
      [kind |-> "decision", goal_achieved |-> FALSE, progress |-> Absent,
       next_action |-> None],
      [kind |-> "decision", goal_achieved |-> FALSE, progress |-> Absent,
       next_action |-> [tool_name |-> Str("type_text"),
                        parameters |-> Params("text" :> Str("my password"))]],
      [kind |-> "raise", goal_achieved |-> FALSE, progress |-> Absent,
       next_action |-> None] }

\* ExecutionAgent defines process() only: executor.execute_tool is an
\* AttributeError, caught by the except clause of the loop body
ExecuteToolMissing == "'ExecutionAgent' object has no attribute 'execute_tool'"

ErrorEntry(n, error) == [iteration |-> n, error |-> error]

\* the loop going on for one pass more than max_iterations
WhileConditionInclusive(n) == n <= max_iterations

\* while self.iteration < self.max_iterations (line 64)
WhileCondition(n) == n < max_iterations

\* what capture_screen() does: a screenshot, or an exception of ImageGrab
Captures == {"ok", "raise"}

\* one pass of the while loop (lines 64-165) with this screenshot and this
\* decision of the planner, or the return after the loop (169)
VisionIterateOn(capture, decision) ==
    /\ mas_pc = "vf_loop"
    /\ IF WhileCondition(vf_iteration)
       THEN /\ vf_iteration' = vf_iteration + 1
            /\   LET n == vf_iteration + 1
                     failed(error) ==
                        /\ conversation_history' =
                              LastN(Append(conversation_history, ErrorEntry(n, error)), 1)
                        /\ conversation_len' = conversation_len + 1
                        /\ UNCHANGED <<mas_pc, mas_response>>
                 IN  IF capture = "raise"
                     THEN \* capture_screen() is called outside the try
                          /\ mas_pc' = "done"
                          /\ mas_response' = Raise("OSError")
                          /\ UNCHANGED <<conversation_history, conversation_len>>
                     ELSE IF decision.kind = "raise"
                     THEN failed("timed out")
                     ELSE IF decision.goal_achieved
                     THEN /\ mas_pc' = "done"
                          /\ mas_response' =
                                Return(DictGet(decision.progress,
                                               Str("Task completed successfully.")))
                          /\ UNCHANGED <<conversation_history, conversation_len>>
                     ELSE IF decision.next_action = None
                     THEN UNCHANGED <<mas_pc, mas_response, conversation_history,
                                      conversation_len>>
                     ELSE failed(ExecuteToolMissing)
       ELSE /\ mas_pc' = "done"
            /\ mas_response' = Return(Str(PartialMessage))
            /\ UNCHANGED <<vf_iteration, conversation_history, conversation_len>>
    /\ UNCHANGED <<use_vision_first, plan, step_index, execution_results, step_outputs,
                   executor_registry, executor_calls, registry_invocations>>
    /\ UNCHANGED <<ro_vars, binder_vars, gui_vars>>

VisionIterate ==
    \E capture \in Captures, decision \in VisionDecisions :
        VisionIterateOn(capture, decision)

MasNext ==
    \/ MasProcessRequest
    \/ PlanRequest
    \/ ExecuteStep
    \/ Verify
    \/ VisionIterate

SpecMulti == MasInit /\ [][MasNext]_vars

\* ------------------------------------------------------------------------
\* OrchestratorAgent._substitute_variables called on its own, on parameter
\* maps and step_outputs as run() builds them
\* ------------------------------------------------------------------------

\* the three reference forms for step n
ReferenceForms == {"dollar", "curly", "angle"}
Reference(form, n) ==
    LET d == SubSeq(DigitChars, n + 1, n + 1)
    IN  CASE form = "dollar" -> "$step" \o d \o "_result"
          [] form = "curly" -> "{step " \o d \o " result}"
          [] OTHER -> "<step " \o d \o " result>"

DesktopAliases == {"<desktop_path>", "{desktop_path}", "$desktop_path"}

\* the step numbers referred to, and the text around a reference
ReferredSteps == {1, 2, 9}
TextBefore == {"", "copy "}
TextAfter == {"", "/out.txt"}

ReferenceValues ==
    {Str(before \o Reference(form, n) \o after) :
        before \in TextBefore, form \in ReferenceForms,
        n \in ReferredSteps, after \in TextAfter}
AliasValues == {Str(alias \o after) : alias \in DesktopAliases, after \in TextAfter}

\* parameter maps: a str value under "file_path", a value that is not a str
\* under "count"
BinderParameters ==
    {("file_path" :> v) @@ ("count" :> w) :
        v \in ReferenceValues \cup AliasValues \cup {Str("notes.txt")},
        w \in {PyInt("3"), None}}

DesktopDir == "C:\\Users\\x\\Desktop"

\* what a successful / a failed regular step leaves in step_outputs
\* (run(), lines 512-520); a CREATE_NEW_TOOL step leaves nothing
StepStored(n, tool, result) ==
    (StepKey(n, "_result") :> result) @@ (StepKey(n, "_tool") :> Str(tool))
StepFailedStored(n, error) ==
    (StepKey(n, "_result") :> Str("")) @@ (StepKey(n, "_error") :> Str(error))

\* step_outputs after some runs of one to three steps
BinderOutputs ==
    { EmptyItems,
      StepStored(1, "get_desktop_path", Str(DesktopDir)),
      StepStored(1, "get_desktop_path", Str(DesktopDir))
         @@ StepStored(2, "type_text", Str("Typed text")),
      StepStored(1, "list_all_windows", [t |-> "list", s |-> "[]"]),
      StepStored(1, "type_text", None),
      StepStored(1, "write_file", PyInt("42")),
      StepFailedStored(1, "Tool 'launch_rocket' not found"),
      StepStored(1, "read_file", Str("Total: {1} items")),
      \* steps 1 and 2 were CREATE_NEW_TOOL steps
      StepStored(3, "get_desktop_path", Str(DesktopDir)),
      StepStored(1, "get_desktop_path", Str("C:/Users/Public/Desktop"))
         @@ StepFailedStored(2, "OSError")
         @@ StepStored(3, "get_desktop_path", Str(DesktopDir)) }

BinderInit ==
    /\ GuiIdle
    /\ bind_pc = "ready"
    /\ bind_parameters \in BinderParameters
    /\ bind_outputs \in BinderOutputs
    /\ bind_result = NoneParams
    /\ MasIdle
    /\ use_vision_first = FALSE
    /\ pc = "idle"
    /\ iteration = 0
    /\ abort_requested = FALSE
    /\ action_history = <<>>
    /\ history_len = 0
    /\ last_action_succeeded = FALSE
    /\ normalized_plan = "unset"
    /\ planner_kind = "plain"
    /\ tool_registry = ToolFallbackNames
    /\ action = NoAction
    /\ response = NoResponse
    /\ trace = <<>>
    /\ registry_calls = 0
    /\ fallback_succeeded = FALSE

\* the call _substitute_variables(parameters, step_outputs)
SubstituteCall ==
    /\ bind_pc = "ready"
    /\ bind_pc' = "done"
    /\ \E out \in {SubstituteVariables(bind_parameters, bind_outputs)} :
          bind_result' = out
    /\ UNCHANGED <<bind_parameters, bind_outputs>>
    /\ UNCHANGED <<ro_vars, mas_vars, gui_vars>>

BinderNext == SubstituteCall

SpecBinder == BinderInit /\ [][BinderNext]_vars

\* ------------------------------------------------------------------------
\* GlowApp: commands from the main window and from the orb (glow_app.py)
\* ------------------------------------------------------------------------
MaxCommands == 3

\* the commands typed: text for the agent, and the special commands
Commands == {"open notepad", "status", "Exit"}

\* process_command, lines 354-393
ProcessCommand(command) ==
    /\ gui_last_sender' = IF Lower(command) = "status" THEN "System" ELSE "You"
    /\ gui_orb_text' = IF Lower(command) \in {"exit", "quit", "bye", "status"}
                       THEN "You: " \o command ELSE "GLOW is thinking..."
    /\ IF Lower(command) \in {"exit", "quit", "bye"}
       THEN /\ gui_closed' = TRUE
            /\ UNCHANGED <<gui_input_enabled, gui_status_label, gui_orb_state,
                           gui_started, gui_worker, gui_running>>
       ELSE IF Lower(command) = "status"
       THEN UNCHANGED <<gui_closed, gui_input_enabled, gui_status_label, gui_orb_state,
                        gui_started, gui_worker, gui_running>>
       ELSE /\ gui_started < MaxCommands
            /\ gui_input_enabled' = FALSE
            /\ gui_status_label' = "Processing..."
            /\ gui_orb_state' = "thinking"
            /\ gui_started' = gui_started + 1
            /\ gui_worker' = gui_started + 1
            /\ gui_running' = gui_running \cup {gui_started + 1}
            /\ UNCHANGED gui_closed
    /\ UNCHANGED <<gui_error_timer, gui_pending>>
    /\ UNCHANGED <<ro_vars, mas_vars, binder_vars>>

\* send_command, lines 348-352: return pressed in the main window's field or
\* the send button clicked; both need the widget enabled
SendCommand ==
    /\ ~gui_closed
    /\ gui_input_enabled
    /\ \E command \in Commands : ProcessCommand(command)

\* GlowOrb._on_text_entered (glow_orb.py 181-186): return pressed in the
\* orb's input box, whose text_entered signal is connected to process_command
OrbTextEntered ==
    /\ ~gui_closed
    /\ \E command \in Commands : ProcessCommand(command)

\* CommandWorker.run, lines 32-36: the run ends and the worker emits
\* finished, or error when process_request raised
WorkerEmits ==
    /\ \E worker \in gui_running, signal \in {"finished", "error"} :
         /\ gui_running' = gui_running \ {worker}
         /\ gui_pending' = Append(gui_pending, signal)
    /\ UNCHANGED <<gui_input_enabled, gui_status_label, gui_last_sender, gui_orb_state,
                   gui_orb_text, gui_error_timer, gui_closed, gui_started, gui_worker>>
    /\ UNCHANGED <<ro_vars, mas_vars, binder_vars>>

\* on_command_finished, lines 407-422
OnCommandFinished ==
    /\ gui_pending # <<>>
    /\ Head(gui_pending) = "finished"
    /\ gui_pending' = Tail(gui_pending)
    /\ gui_last_sender' = "GLOW"
    /\ gui_orb_text' = "response"
    /\ gui_orb_state' = "idle"
    /\ gui_input_enabled' = TRUE
    /\ gui_status_label' = "Model"
    /\ UNCHANGED <<gui_error_timer, gui_closed, gui_started, gui_worker, gui_running>>
    /\ UNCHANGED <<ro_vars, mas_vars, binder_vars>>

\* on_command_error, lines 424-438
OnCommandError ==
    /\ gui_pending # <<>>
    /\ Head(gui_pending) = "error"
    /\ gui_pending' = Tail(gui_pending)
    /\ gui_last_sender' = "ERROR"
    /\ gui_input_enabled' = TRUE
    /\ gui_status_label' = "Error"
    /\ gui_orb_state' = "error"
    /\ gui_error_timer' = TRUE
    /\ gui_orb_text' = "Error"
    /\ UNCHANGED <<gui_closed, gui_started, gui_worker, gui_running>>
    /\ UNCHANGED <<ro_vars, mas_vars, binder_vars>>

\* the QTimer.singleShot(2000, self.set_state_idle) of set_state_error
ErrorTimerFires ==
    /\ gui_error_timer
    /\ gui_error_timer' = FALSE
    /\ gui_orb_state' = "idle"
    /\ UNCHANGED <<gui_input_enabled, gui_status_label, gui_last_sender, gui_orb_text,
                   gui_closed, gui_started, gui_worker, gui_running, gui_pending>>
    /\ UNCHANGED <<ro_vars, mas_vars, binder_vars>>

GuiInit ==
    /\ GuiIdle
    /\ BinderIdle
    /\ MasIdle
    /\ use_vision_first = FALSE
    /\ pc = "idle"
    /\ iteration = 0
    /\ abort_requested = FALSE
    /\ action_history = <<>>
    /\ history_len = 0
    /\ last_action_succeeded = FALSE
    /\ normalized_plan = "unset"
    /\ planner_kind = "plain"
    /\ tool_registry = ToolFallbackNames
    /\ action = NoAction
    /\ response = NoResponse
    /\ trace = <<>>
    /\ registry_calls = 0
    /\ fallback_succeeded = FALSE

GuiNext ==
    \/ SendCommand
    \/ OrbTextEntered
    \/ WorkerEmits
    \/ OnCommandFinished
    \/ OnCommandError
    \/ ErrorTimerFires

SpecGui == GuiInit /\ [][GuiNext]_vars

\* ------------------------------------------------------------------------
\* Properties of RobustOrchestrator.process_request
\* ------------------------------------------------------------------------

\* C1: process_request performs at most MAX_ITERATIONS loop iterations, and
\* when the last of them has completed the run returns; a run ends with the
\* 'Reached maximum iterations' message exactly when it ends from the loop
\* head after MAX_ITERATIONS iterations that all completed without a return.
C1_IterationBound ==
    /\ [](iteration \in 0..MAX_ITERATIONS)
    /\ [][(pc = "loop" /\ iteration = MAX_ITERATIONS /\ pc' # pc) => pc' = "done"]_vars
    /\ [][(pc # "done" /\ pc' = "done") =>
            ((response' = Return(Str(MaxIterationsMessage)))
               <=> (pc = "loop" /\ iteration = MAX_ITERATIONS))]_vars

C1_Witness ==
    /\ pc = "done"
    /\ iteration = MAX_ITERATIONS
    /\ response = Return(Str(MaxIterationsMessage))

\* the (intent, target) pairs of the planner's proposals that contain a
\* deny-listed keyword
DenyListedPairs ==
    {<<Proposals[x].intent.s, Proposals[x].target.s>> :
        x \in {y \in DOMAIN Proposals :
                 /\ IsStr(Proposals[y].intent) /\ IsStr(Proposals[y].target)
                 /\ IsBlockedIntent(Proposals[y].intent.s, Proposals[y].target.s)}}

\* the action proposed in the current iteration contains a deny-listed keyword
ProposedDenyListed ==
    /\ ~action.goal_achieved
    /\ IsStr(action.intent) /\ IsStr(action.target)
    /\ <<action.intent.s, action.target.s>> \in DenyListedPairs

\* C2: whenever the planner proposes an intent/target that contains a
\* deny-listed substring, process_request returns the fixed refusal response
\* and the run has made no tool-registry invocation.
C2_DenyListedRefused ==
    ProposedDenyListed =>
        /\ pc = "done"
        /\ response = Return(Str(RefusalMessage(action.intent.s)))
        /\ registry_calls = 0

\* no context handler, vision method, click or registry tool among the calls
NoToolActivity(ev) ==
    \A i \in 1..Len(ev) :
        ~IsHandlerEvent(ev[i]) /\ ~IsVisionEvent(ev[i]) /\ ~IsRegistryEvent(ev[i])

\* C3: an iteration whose proposed intent+target contains a deny-listed
\* keyword invokes no context handler, vision step or registry tool, makes no
\* planner call after the intent query, and ends the run with a return.
C3_DenyListedIterationEndsRun ==
    ProposedDenyListed =>
        /\ pc = "done"
        /\ response.kind = "return"
        /\ trace = <<"get_screen_context", "_get_intent">>
        /\ NoToolActivity(trace)

C3_Witness ==
    /\ ProposedDenyListed
    /\ pc = "done"
    /\ iteration > 1
    /\ history_len > 0
    /\ response = Return(Str(RefusalMessage(action.intent.s)))

\* C5: process_request never raises to its caller: whatever normalization,
\* observation, the intent query, the handler, the vision step and the tools
\* do, a run hands its caller a str.
C5_AlwaysReturnsString ==
    /\ response.kind # "raise"
    /\ pc = "done" => (response.kind = "return" /\ IsStr(response.value))

\* C6: when the planner reports goal_achieved on the first intent query of a
\* run, process_request returns the message the planner supplied (the
\* default text when the reply has none) and the run has invoked no handler,
\* vision step or registry tool.
C6_GoalAchievedAtFirstQuery ==
    (iteration = 1 /\ action.goal_achieved) =>
        /\ pc = "done"
        /\ response = Return(IF action.message = Absent
                             THEN Str(DefaultGoalMessage) ELSE action.message)
        /\ NoToolActivity(trace)
        /\ history_len = 0

C6_Witness ==
    /\ pc = "done"
    /\ iteration = 1
    /\ action.goal_achieved
    /\ action.message = Str("All steps are complete.")
    /\ response = Return(Str("All steps are complete."))

\* the (context, window title, intent, target) of the proposals that the
\* already-achieved heuristic matches
AlreadyAchievedProposals ==
    {<<Proposals[x].context, Proposals[x].window_title,
       Proposals[x].intent.s, Proposals[x].target.s>> :
        x \in {y \in DOMAIN Proposals :
                 /\ IsStr(Proposals[y].intent) /\ IsStr(Proposals[y].target)
                 /\ IsGoalAlreadyAchieved(Proposals[y].context, Proposals[y].intent.s,
                                          Proposals[y].target.s,
                                          Proposals[y].window_title)}}

\* the step is an iteration's decision on a proposed action whose signature
\* is among the last 3 history entries while last_action_succeeded is true
RepeatsSuccessfulAction ==
    /\ pc = "observe" /\ pc' # "observe"
    /\ ~action'.goal_achieved
    /\ IsStr(action'.intent) /\ IsStr(action'.target)
    /\ last_action_succeeded
    /\ InSeq(ActionKey(action'.context, action'.intent.s, action'.target.s),
             LastN(action_history, DupWindow))

\* the step returns the 'already completed' response with no dispatch and
\* no append to the history
ReturnsAlreadyCompleted ==
    /\ pc' = "done"
    /\ response' = Return(Str(AlreadyCompletedMessage(action'.intent.s, action'.target.s)))
    /\ NoToolActivity(trace')
    /\ action_history' = action_history
    /\ history_len' = history_len

\* C7 as stated: whenever the proposed signature is among the last 3 history
\* entries and last_action_succeeded is true, the iteration returns the
\* 'already completed' response without handler, vision step or tool and
\* without appending to the history.
C7_DuplicateGuardAsStated ==
    [][RepeatsSuccessfulAction => ReturnsAlreadyCompleted]_vars

\* C7: whenever the proposed signature is among the last 3 history entries,
\* last_action_succeeded is true and the already-achieved heuristic does not
\* match the proposal against the observed window title, the iteration
\* returns the 'already completed' response without handler, vision step or
\* tool and without appending to the history.
C7_DuplicateGuard ==
    [][(/\ RepeatsSuccessfulAction
        /\ <<action'.context, action'.window_title, action'.intent.s, action'.target.s>>
              \notin AlreadyAchievedProposals)
       => ReturnsAlreadyCompleted]_vars

C7_Witness ==
    /\ pc = "done"
    /\ last_action_succeeded
    /\ IsStr(action.intent) /\ IsStr(action.target)
    /\ Len(action_history) = DupWindow
    /\ action_history[1] = ActionKey(action.context, action.intent.s, action.target.s)
    /\ action_history[DupWindow] # action_history[1]
    /\ response = Return(Str(AlreadyCompletedMessage(action.intent.s, action.target.s)))

\* the (window title, intent, target) with an open/launch intent whose target
\* is, letter case aside, a substring of the title
OpenTargetShown ==
    {<<Proposals[x].window_title, Proposals[x].intent.s, Proposals[x].target.s>> :
        x \in {y \in DOMAIN Proposals :
                 /\ IsStr(Proposals[y].intent) /\ IsStr(Proposals[y].target)
                 /\ \/ Contains("open", Lower(Proposals[y].intent.s))
                    \/ Contains("launch", Lower(Proposals[y].intent.s))
                 /\ Contains(Lower(Proposals[y].target.s),
                             Lower(Proposals[y].window_title))}}

\* C8: in an iteration that proposes an open/launch intent while the context
\* is application and the target is a case-insensitive substring of the
\* window title, process_request returns the 'already open' response and
\* the iteration makes no handler, vision or tool call.
C8_AlreadyOpenShortCircuit ==
    (/\ action.context = "application"
     /\ ~action.goal_achieved
     /\ IsStr(action.intent) /\ IsStr(action.target)
     /\ <<action.window_title, action.intent.s, action.target.s>> \in OpenTargetShown)
    => /\ pc = "done"
       /\ response = Return(Str(AlreadyOpenMessage(action.target.s)))
       /\ NoToolActivity(trace)

C8_Witness ==
    /\ pc = "done"
    /\ iteration > 1
    /\ action.context = "application"
    /\ action.window_title = "Untitled - Notepad"
    /\ action.intent = Str("open_app")
    /\ action.target = Str("notepad")
    /\ response = Return(Str("Done! notepad is already open."))

\* the run went into its loop, no abort was requested, and it did not end on
\* a proposal that is malformed, already achieved or deny-listed
RunOfPlainProposalsEnded ==
    /\ pc = "done"
    /\ iteration > 0
    /\ ~abort_requested
    /\ action.result \notin {"raise", "already", "blocked"}

ReachedMaximumIterations ==
    /\ iteration = MAX_ITERATIONS
    /\ response = Return(Str(MaxIterationsMessage))

ContainsBlocked(text) ==
    \E blocked \in BLOCKED_INTENTS : Contains(blocked, Lower(text))

\* the tool name or the parameters of a call contain a deny-listed keyword
DenyListedCall(call) ==
    \/ IsStr(call.tool_name) /\ ContainsBlocked(call.tool_name.s)
    \/ \E key \in DOMAIN call.parameters.items :
          \/ ContainsBlocked(key)
          \/ /\ IsStr(call.parameters.items[key])
             /\ ContainsBlocked(call.parameters.items[key].s)

\* C4: on every orchestration path of MultiAgentSystem.process_request (the
\* plan execution of OrchestratorAgent.run and the vision-first loop), no
\* step whose tool name or parameters contain a deny-listed keyword is handed
\* to the executor or invoked through the registry.
C4_DenyListOnEveryPath ==
    /\ \A k \in 1..Len(executor_calls) : ~DenyListedCall(executor_calls[k])
    /\ \A k \in 1..Len(registry_invocations) : ~DenyListedCall(registry_invocations[k])

\* a step whose tool raised or was not registered is among the results
FailedToolStepRecorded ==
    \E i \in 1..Len(execution_results) :
        /\ ~execution_results[i].success
        /\ execution_results[i].error # Absent

\* C10: when the tool of a step raised or its name was not in the registry,
\* the step is recorded with success = FALSE and the run goes on: it ends
\* only after every later step of the plan has been executed and recorded,
\* no exception ending it before.
C10_FailedStepRunGoesOn ==
    (mas_pc = "done" /\ FailedToolStepRecorded)
    => /\ step_index = Len(plan.steps)
       /\ Len(execution_results) = Len(plan.steps)

\* a regular step whose tool came back with an error-describing status
ReturnedErrorStatus(r) ==
    /\ r.tool # Str("CREATE_NEW_TOOL")
    /\ IsStr(r.result)
    /\ StartsWith(r.result.s, "Error")

\* C11: a step whose tool reports failure through its return value (an
\* error-describing status, no exception) is recorded with success = FALSE.
C11_ErrorStatusRecordedAsFailure ==
    \A i \in 1..Len(execution_results) :
        ReturnedErrorStatus(execution_results[i]) => ~execution_results[i].success

\* ------------------------------------------------------------------------
\* Properties of RobustOrchestrator.process_request: cancellation
\* ------------------------------------------------------------------------

C13_VisionOnlyOnRequest ==
    (\E i \in 1..Len(trace) : IsVisionEvent(trace[i]))
    => action.result \in {"vision_ok", "vision_failed"}

\* ------------------------------------------------------------------------
\* Properties of OrchestratorAgent._substitute_variables
\* ------------------------------------------------------------------------

\* the call has returned a parameter map
BinderReturned == bind_pc = "done" /\ bind_result.t = "dict"

\* C14: a reference to step n in any of the three forms is replaced by the
\* stored result of step n (a str here), the text around it unchanged, when
\* step_outputs holds the result; without an entry the reference stays as
\* it is written.
C14_ReferencesResolved ==
    bind_pc = "done" =>
      \A before \in TextBefore, form \in ReferenceForms,
         n \in ReferredSteps, after \in TextAfter :
        bind_parameters["file_path"] = Str(before \o Reference(form, n) \o after)
        => IF StepKey(n, "_result") \notin DOMAIN bind_outputs
           THEN /\ BinderReturned
                /\ bind_result.items["file_path"] = bind_parameters["file_path"]
           ELSE LET stored == bind_outputs[StepKey(n, "_result")]
                IN  IsStr(stored) =>
                      /\ BinderReturned
                      /\ bind_result.items["file_path"] = Str(before \o stored.s \o after)

\* C15: the call never raises, whatever step_outputs holds, and a parameter
\* value that is not a str comes back unchanged under its key.
C15_BinderNeverRaises ==
    bind_pc = "done" =>
      /\ bind_result.t = "dict"
      /\ DOMAIN bind_result.items = DOMAIN bind_parameters
      /\ \A key \in DOMAIN bind_parameters :
            ~IsStr(bind_parameters[key])
               => bind_result.items[key] = bind_parameters[key]

\* the steps that ran get_desktop_path successfully, by step_outputs
DesktopPathSteps ==
    {n \in 1..9 : /\ StepKey(n, "_tool") \in DOMAIN bind_outputs
                  /\ bind_outputs[StepKey(n, "_tool")] = Str("get_desktop_path")}

\* C16: a desktop_path alias is replaced by the result of the most recent
\* step that ran get_desktop_path successfully, whenever there is one,
\* whatever its step number.
C16_DesktopAliasResolved ==
    (bind_pc = "done" /\ DesktopPathSteps # {}) =>
      \A alias \in DesktopAliases, after \in TextAfter :
        bind_parameters["file_path"] = Str(alias \o after)
        => LET latest == CHOOSE n \in DesktopPathSteps : \A m \in DesktopPathSteps : m <= n
           IN  /\ BinderReturned
               /\ bind_result.items["file_path"] =
                     Str(bind_outputs[StepKey(latest, "_result")].s \o after)

\* ------------------------------------------------------------------------
\* Properties of OrchestratorAgent.run
\* ------------------------------------------------------------------------

\* the keys run() may have stored for the steps 1..n
StoredKeys(n) ==
    {StepKey(m, suffix) : m \in 1..n, suffix \in {"_result", "_tool", "_error"}}

\* the text the plans put before a reference
PlanTextBefore == {"", "my Password is "}

\* the step just handed to the executor got its references to the current
\* and to later steps as they were written
LaterReferencesKept ==
    LET i == step_index'
        step == plan.steps[i]
        call == executor_calls'[Len(executor_calls')]
    IN  \A key \in DOMAIN step.parameters.items, form \in ReferenceForms,
           n \in i..9, before \in PlanTextBefore :
          step.parameters.items[key] = Str(before \o Reference(form, n))
          => call.parameters.items[key] = step.parameters.items[key]

\* C17: step numbers start at 1 and go up by one in plan order; when step i
\* is bound step_outputs holds entries of the steps before i only, so a
\* reference to step i or a later one is left as written; and an entry once
\* stored stays as it is for the rest of the run.
C17_StepIndicesAndOutputs ==
    /\ [](DOMAIN step_outputs \subseteq StoredKeys(step_index))
    /\ [][step_index' # step_index
            => \/ step_index' = step_index + 1
               \/ step_index' = 0 /\ mas_pc \in {"idle", "done"}]_vars
    /\ [][(mas_pc = "steps" /\ Len(executor_calls') = Len(executor_calls) + 1)
            => LaterReferencesKept]_vars
    /\ [][mas_pc = "steps"
            => \A key \in DOMAIN step_outputs :
                  /\ key \in DOMAIN step_outputs'
                  /\ step_outputs'[key] = step_outputs[key]]_vars

C17_Witness ==
    /\ mas_pc = "steps"
    /\ step_index = 3
    /\ Len(executor_calls) = 3
    /\ executor_calls[1].parameters.items = ("text" :> Str("my Password is {step 2 result}"))
    /\ executor_calls[3].tool_name = Str("write_file")
    /\ StepKey(1, "_result") \in DOMAIN step_outputs
    /\ StepKey(3, "_result") \in DOMAIN step_outputs
    /\ executor_calls[3].parameters.items["content"] = step_outputs[StepKey(1, "_result")]
    /\ step_outputs[StepKey(1, "_result")] = Str("Typed text")

\* ------------------------------------------------------------------------
\* Properties of the normalization stage of process_request
\* ------------------------------------------------------------------------

\* C18: whatever the planner sends back to the normalization query, the run
\* leaves the normalization stage for the iteration loop, with nothing
\* returned or raised yet.
C18_NormalizationNeverFatal ==
    [][pc = "normalize" /\ pc' # pc
         => /\ pc' = "loop"
            /\ response' = NoResponse]_vars

\* ------------------------------------------------------------------------
\* Properties of the response of OrchestratorAgent.run
\* ------------------------------------------------------------------------

\* C19: a finished run in standard mode has returned a string; it has not
\* raised and has not returned anything else.
C19_RunReturnsString ==
    (mas_pc = "done" /\ ~use_vision_first)
        => (mas_response.kind = "return" /\ IsStr(mas_response.value))

\* the replies the verifier cannot parse as the structured result
UnparsedReplies == {reply \in VerifierReplies : reply.kind \in {"text", "invalid_json"}}

\* C20: when the verification reply holds no JSON object, or holds braces
\* that are not valid JSON, run() returns the text of the reply.
C20_RawReplyReturned ==
    [][\A reply \in UnparsedReplies :
          VerifyReply(reply) => mas_response' = Return(Str(reply.text))]_vars

\* ------------------------------------------------------------------------
\* Properties of RobustOrchestrator across runs
\* ------------------------------------------------------------------------

\* C21: when process_request starts, the action history, the abort flag and
\* last_action_succeeded hold what a new instance holds, and the loop is
\* entered with a normalized plan assigned by this run.
C21_RunStartsFresh ==
    /\ [][(pc # "normalize" /\ pc' = "normalize")
            => /\ action_history' = <<>>
               /\ abort_requested' = FALSE
               /\ last_action_succeeded' = FALSE]_vars
    /\ [][(pc = "normalize" /\ pc' = "loop")
            => normalized_plan' \in {"None", "plan"}]_vars

\* what a dispatch leaves in action.result
DispatchSucceeded == {"success", "vision_ok", "fallback_ok"}
DispatchFailed == {"vision_failed", "fallback_failed"}

\* C22: back at the loop head after a dispatch, last_action_succeeded (the
\* value the next duplicate check reads) tells whether that dispatch
\* (handler, vision step or tool fallback) reported success.
C22_FlagFollowsLastDispatch ==
    (pc = "loop" /\ action.result \in DispatchSucceeded \cup DispatchFailed)
        => (last_action_succeeded <=> action.result \in DispatchSucceeded)

\* C23: an iteration whose intent query failed dispatches nothing and does
\* not end the run: it is left for the loop head alone.
C23_FailedQueryConfined ==
    action.failed_query => pc = "loop"

\* ------------------------------------------------------------------------
\* Properties of VisionFirstOrchestrator.process_request_vision_first
\* ------------------------------------------------------------------------

\* the decisions that name a next action whose tool is registered
ActingDecisions ==
    {decision \in VisionDecisions :
        /\ decision.kind = "decision"
        /\ ~decision.goal_achieved
        /\ decision.next_action # None
        /\ decision.next_action.tool_name.s \in DOMAIN executor_registry}

\* C24: a vision-first iteration whose decision names a registered tool
\* invokes that tool once through the registry with the decided parameters
\* and appends an entry that is not an error entry to the conversation
\* history.
C24_DecidedToolInvoked ==
    [][\A decision \in ActingDecisions :
          (WhileCondition(vf_iteration) /\ VisionIterateOn("ok", decision))
              => /\ registry_invocations' =
                       Append(registry_invocations,
                              [tool_name |-> decision.next_action.tool_name,
                               parameters |-> decision.next_action.parameters])
                 /\ "error" \notin DOMAIN conversation_history'[Len(conversation_history')]]_vars

\* C25: the iteration counter never exceeds max_iterations and goes up by
\* one per pass; a run that returns the 'Partially completed' message has
\* made max_iterations passes, and a run back at the loop head after
\* max_iterations passes returns that message.
C25_VisionLoopBounded ==
    /\ [](vf_iteration <= max_iterations)
    /\ [][vf_iteration' # vf_iteration
            => \/ vf_iteration' = vf_iteration + 1
               \/ vf_iteration' = 0 /\ mas_pc \in {"idle", "done"}]_vars
    /\ []((mas_pc = "done" /\ use_vision_first /\ mas_response = Return(Str(PartialMessage)))
            => vf_iteration = max_iterations)
    /\ [][(mas_pc = "vf_loop" /\ vf_iteration = max_iterations)
            => (mas_pc' = "done" /\ mas_response' = Return(Str(PartialMessage)))]_vars

C25_Witness ==
    /\ mas_pc = "done"
    /\ use_vision_first
    /\ vf_iteration = max_iterations
    /\ conversation_len > 0
    /\ mas_response = Return(Str(PartialMessage))

\* C26: in standard mode the results list grows by one entry per step in
\* plan order, and a finished run holds one entry for every step of its plan.
C26_OneResultPerStep ==
    /\ [](~use_vision_first => Len(execution_results) = step_index)
    /\ []((mas_pc = "done" /\ ~use_vision_first)
            => Len(execution_results) = Len(plan.steps))

\* ------------------------------------------------------------------------
\* Properties of the tool registry
\* ------------------------------------------------------------------------

\* C27: every step leaves each registered name registered with the callable
\* it had, and a step that changes the registry adds one name that was not
\* registered before.
C27_RegistryOnlyGrows ==
    [][/\ \A name \in DOMAIN executor_registry :
            /\ name \in DOMAIN executor_registry'
            /\ executor_registry'[name] = executor_registry[name]
       /\ executor_registry' # executor_registry
            => \E name \in DOMAIN executor_registry' \ DOMAIN executor_registry :
                  DOMAIN executor_registry' = DOMAIN executor_registry \cup {name}]_vars

\* ------------------------------------------------------------------------
\* Properties of the binder on references to failed steps
\* ------------------------------------------------------------------------

\* C28: a reference to the result of a step that failed (step_outputs holds
\* its error) comes back from the binder as it was written.
C28_FailedStepReferenceKept ==
    bind_pc = "done" =>
      \A before \in TextBefore, form \in ReferenceForms,
         n \in ReferredSteps, after \in TextAfter :
        ( /\ bind_parameters["file_path"] = Str(before \o Reference(form, n) \o after)
          /\ StepKey(n, "_error") \in DOMAIN bind_outputs )
        => /\ BinderReturned
           /\ bind_result.items["file_path"] = bind_parameters["file_path"]

\* ------------------------------------------------------------------------
\* Properties of GlowApp
\* ------------------------------------------------------------------------

\* C29: at most one started CommandWorker has not yet emitted finished or
\* error.
C29_OneRunInProgress ==
    \A w1, w2 \in gui_running : w1 = w2

\* ------------------------------------------------------------------------
\* Properties of the already-achieved heuristic
\* ------------------------------------------------------------------------

\* C30: a run that ends with the 'is already open' response ended in an
\* iteration whose proposal had a target that is not empty.
C30_AlreadyOpenNeedsTarget ==
    (pc = "done" /\ action.result = "already") => action.target # Str("")

====
